---- MODULE Spec2Model ----
(***************************************************************************)
(* Detection and enforcement subsystem of the intrusion detection backend. *)
(*                                                                         *)
(*   backend/data_manager.py      the persisted document (threats, rules)  *)
(*   backend/firewall_manager.py  add_rule / remove_rule / apply_rules     *)
(*                                against the iptables INPUT chain         *)
(*   backend/security_monitor.py  _analyze_packet and its helpers          *)
(*                                                                         *)
(* Time is counted in whole seconds.  The external packet filter, the      *)
(* document store and the remote classifier are the environment: every     *)
(* call into them takes its outcome from an oracle chosen with \E.         *)
(*                                                                         *)
(* Rules are addressed by their source address: the random rule id and the *)
(* timestamps of rules are left out.  Threat ids are taken to be unique.   *)
(* SecurityMonitor.session is None after construction and is set by        *)
(* start_live_monitoring; _analyze_packet is modelled in both cases.  The  *)
(* handler is fed trains of packets of one source; one train is analysed   *)
(* within one second and under one answer of the classifier.               *)
(***************************************************************************)
EXTENDS Integers, Sequences, FiniteSets, TLC

VARIABLES
    firewall_rules,      \* data["firewall_rules"]: sequence of [source_ip, action]
    threats,             \* data["threats"]: sequence of threat records
    iptables,            \* rules of the INPUT chain: sequence of [source, target]
    packet_counts,       \* SecurityMonitor.packet_counts: source -> flow record
    reported_threats,    \* SecurityMonitor.reported_threats: key -> report time
    detection_attempts,  \* SecurityMonitor.detection_attempts: key -> attempt time
    session,             \* SecurityMonitor.session is not None
    websocket_manager,   \* SecurityMonitor.websocket_manager is not None
    is_locked_down,      \* SecurityMonitor.is_locked_down
    clock,               \* time.time(), in seconds
    log,                 \* what the handlers did: threats created, classifier calls, broadcasts
    budget,              \* operations still allowed per kind (bounds the exploration)
    last,                \* the operation that produced this state, with its outcome
    store_stats,         \* data["stats"]: [total_threats, blocked_attacks]
    running,             \* per thread: the DataManager helper it is inside, and its copy
    completed,           \* the helper calls whose save_data has returned, in order
    clients,             \* WebSocketManager.clients: the client ids registered
    coroutines           \* the WebSocketManager coroutines in flight, each at an await

vars == <<firewall_rules, threats, iptables, packet_counts, reported_threats,
          detection_attempts, session, websocket_manager, is_locked_down,
          clock, log, budget, last, store_stats, running, completed, clients, coroutines>>

storeVars == <<firewall_rules, threats>>
monitorVars == <<packet_counts, reported_threats, detection_attempts>>
switchVars == <<session, websocket_manager, is_locked_down>>
callVars == <<store_stats, running, completed>>
wsVars == <<clients, coroutines>>

(***************************************************************************)
(* Bounds of the exploration.                                              *)
(***************************************************************************)
MaxRules == 2        \* rules held by the store, and by the INPUT chain, before an insertion
MaxFaults == 1       \* environment failures injected into one operation
MaxFailRun == 3      \* consecutive attempts a failing command would fail
MaxBursts == 2       \* packet trains analysed by the monitor
MaxDetections == 2   \* packet trains analysed beside the firewall operations
MaxTicks == 2        \* advances of the clock
StartTime == 54      \* the clock when the process starts
MaxCoroutines == 2   \* WebSocketManager coroutines suspended at the same time

\* Source addresses.  The text of the first is a prefix of the text of the second.
Addrs == {"10.0.0.1", "10.0.0.10"}

(***************************************************************************)
(* Text.  Strings are handled character by character, as the code does.    *)
(***************************************************************************)
Contains(hay, needle) ==
    \E i \in 0..(Len(hay) - Len(needle)) : SubSeq(hay, i + 1, i + Len(needle)) = needle

StartsWith(s, prefix) ==
    Len(s) >= Len(prefix) /\ SubSeq(s, 1, Len(prefix)) = prefix

UpperChars == "ABCDEFGHIJKLMNOPQRSTUVWXYZ"
LowerChars == "abcdefghijklmnopqrstuvwxyz"

LowerChar(c) ==
    IF \E i \in 1..Len(UpperChars) : SubSeq(UpperChars, i, i) = c
    THEN LET i == CHOOSE i \in 1..Len(UpperChars) : SubSeq(UpperChars, i, i) = c
         IN  SubSeq(LowerChars, i, i)
    ELSE c

RECURSIVE LowerText(_)
\* str.lower()
LowerText(s) ==
    IF Len(s) = 0 THEN ""
    ELSE LowerText(SubSeq(s, 1, Len(s) - 1)) \o LowerChar(SubSeq(s, Len(s), Len(s)))

\* The action strings the operations meet, and str.lower() of each, computed once.
ActionTexts == {"block", "DROP", "allow", "Accept", "deny", "", "drop", "accept"}
Lowered == [s \in ActionTexts |-> LowerText(s)]
Lower(s) == Lowered[s]

DigitChars == "0123456789"

RECURSIVE NumText(_)
NumText(n) ==
    IF n < 10 THEN SubSeq(DigitChars, n + 1, n + 1)
    ELSE NumText(n \div 10) \o SubSeq(DigitChars, (n % 10) + 1, (n % 10) + 1)

(***************************************************************************)
(* The external packet filter: the INPUT chain of iptables in the          *)
(* container.  A command is [op, source, target] with op one of            *)
(* "A" (append), "D" (delete the first matching rule), "F" (flush).        *)
(***************************************************************************)
Cmd(op, source, target) == [op |-> op, source |-> source, target |-> target]

Matches(r, cmd) == r.source = cmd.source /\ r.target = cmd.target

RemoveAt(s, i) == SubSeq(s, 1, i - 1) \o SubSeq(s, i + 1, Len(s))

\* The first of a non-empty set of positions.
FirstIndex(S) == CHOOSE i \in S : \A j \in S : i <= j

\* Whether iptables accepts the command: -D of a rule that is not there is an error.
CmdApplies(filter, cmd) ==
    cmd.op = "D" => \E i \in 1..Len(filter) : Matches(filter[i], cmd)

\* The chain after the command has run.
CmdEffect(filter, cmd) ==
    CASE cmd.op = "A" -> Append(filter, [source |-> cmd.source, target |-> cmd.target])
      [] cmd.op = "D" -> RemoveAt(filter, FirstIndex({i \in 1..Len(filter) : Matches(filter[i], cmd)}))
      [] cmd.op = "F" -> <<>>

\* One rule line of `iptables -L INPUT -n --line-numbers`.
RuleLine(i, r) ==
    NumText(i) \o "    " \o r.target \o "       all  --  " \o r.source
        \o "            0.0.0.0/0"

\* The whole listing: two header lines, then the rules.
Listing(filter) ==
    <<"Chain INPUT (policy ACCEPT)",
      "num  target     prot opt source               destination">>
        \o [i \in 1..Len(filter) |-> RuleLine(i, filter[i])]

Target(action) == IF action \in {"allow", "accept"} THEN "ACCEPT" ELSE "DROP"

Targets == {"DROP", "ACCEPT"}

(***************************************************************************)
(* The environment's choices for one operation.  An oracle names the       *)
(* points of the operation at which the environment fails (a filter        *)
(* command, a listing, a store write) and how many consecutive attempts a  *)
(* failing command would fail.                                             *)
(***************************************************************************)
CommandPoints == {"delete", "insert", "flush"}

Oracles(points) ==
    {o \in [faults : {F \in SUBSET points : Cardinality(F) <= MaxFaults},
            run : 1..MaxFailRun] :
        o.run > 1 => \E p \in o.faults : p[1] \in CommandPoints}

NoFaults == [faults |-> {}, run |-> 1]

Faulty(o, name, i) == <<name, i>> \in o.faults

\* Attempts the environment would fail for the command at <<name, i>>.
Failing(o, name, i) == IF Faulty(o, name, i) THEN o.run ELSE 0

(***************************************************************************)
(* FirewallManager: the two ways it talks to the filter.                   *)
(***************************************************************************)
\* _execute_iptables_command: a single subprocess.run; returns whether it succeeded.
\* `failing` is the number of attempts the environment fails before the command
\* would go through.
ExecuteIptablesCommand(filter, cmd, failing) ==
    LET ok == failing = 0 /\ CmdApplies(filter, cmd)
    IN  [ok |-> ok,
         filter |-> IF ok THEN CmdEffect(filter, cmd) ELSE filter,
         entry |-> [op |-> cmd.op, source |-> cmd.source, target |-> cmd.target,
                    ok |-> ok, failing |-> failing, applies |-> CmdApplies(filter, cmd)]]

\* The test _rule_exists applies to one line of the listing.
LineMatches(line, source_ip, target) ==
    /\ Contains(line, source_ip)
    /\ Contains(line, target)
    /\ ~StartsWith(line, "Chain")
    /\ ~StartsWith(line, "num")

\* LineMatches on every line a listing can hold, computed once.
ListingLines ==
    {"Chain INPUT (policy ACCEPT)",
     "num  target     prot opt source               destination"}
        \cup {RuleLine(i, r) : i \in 1..(MaxRules + 1), r \in [source : Addrs, target : Targets]}

MatchingLines ==
    [source_ip \in Addrs, target \in Targets |->
        {line \in ListingLines : LineMatches(line, source_ip, target)}]

\* _rule_exists: lists the chain; False when the listing itself fails.
RuleExists(filter, source_ip, action, fails) ==
    LET lines == Listing(filter)
        found == /\ ~fails
                 /\ \E i \in 1..Len(lines) : lines[i] \in MatchingLines[source_ip, Target(action)]
    IN  [found |-> found,
         entry |-> [op |-> "L", source |-> source_ip, target |-> Target(action),
                    ok |-> ~fails, failing |-> IF fails THEN 1 ELSE 0, applies |-> TRUE]]

\* A _remove_conflicting_rule whose caller goes on whatever the command returned.
RemovalIgnored(filter, source_ip, conflicting_action, failing) ==
    [ExecuteIptablesCommand(filter, Cmd("D", source_ip, Target(conflicting_action)), failing)
        EXCEPT !.ok = TRUE]

\* _remove_conflicting_rule
RemoveConflictingRule(filter, source_ip, conflicting_action, failing) ==
    ExecuteIptablesCommand(filter, Cmd("D", source_ip, Target(conflicting_action)), failing)

(***************************************************************************)
(* DataManager: each helper loads the document, changes it and saves it.   *)
(* `fails` says that save_data fails: the helper returns False and the     *)
(* document is as before.                                                  *)
(***************************************************************************)
\* add_firewall_rule
AddFirewallRule(rules, rule, fails) ==
    [ok |-> ~fails, rules |-> IF fails THEN rules ELSE Append(rules, rule)]

\* remove_firewall_rule: pops the first rule of that address
RemoveFirewallRule(rules, ip, fails) ==
    LET found == {i \in 1..Len(rules) : rules[i].source_ip = ip} IN
    IF found # {}
    THEN [ok |-> ~fails,
          rules |-> IF fails THEN rules ELSE RemoveAt(rules, FirstIndex(found))]
    ELSE [ok |-> FALSE, rules |-> rules]

\* update_threat with {"status": status}: the first threat of that id
UpdateThreat(ts, id, status, fails) ==
    LET found == {i \in 1..Len(ts) : ts[i].id = id} IN
    IF found # {}
    THEN IF fails THEN ts
         ELSE [ts EXCEPT ![FirstIndex(found)] = [@ EXCEPT !.status = status]]
    ELSE ts

RECURSIVE UpdateEach(_, _, _, _, _, _)
\* The loop of _update_threat_status over the threats loaded before it.
UpdateEach(ts, loaded, i, ip, status, o) ==
    IF i > Len(loaded) THEN ts
    ELSE IF loaded[i].source = ip /\ loaded[i].status # status
         THEN UpdateEach(UpdateThreat(ts, loaded[i].id, status, Faulty(o, "store_update", i)),
                         loaded, i + 1, ip, status, o)
         ELSE UpdateEach(ts, loaded, i + 1, ip, status, o)

\* An _update_threat_status that leaves every threat as it is.
KeepThreatStatus(ts, ip, status, o) == ts

\* An _update_threat_status that stops after the first threat of the address.
OnlyFirstThreat(ts, ip, status, o) ==
    LET of == {i \in 1..Len(ts) : ts[i].source = ip} IN
    IF of = {} THEN ts
    ELSE UpdateThreat(ts, ts[FirstIndex(of)].id, status,
                      Faulty(o, "store_update", FirstIndex(of)))

\* FirewallManager._update_threat_status
UpdateThreatStatus(ts, ip, status, o) == UpdateEach(ts, ts, 1, ip, status, o)

(***************************************************************************)
(* FirewallManager operations, as functions of the state they read and of  *)
(* the oracle.  Each returns the value the method returns, the state it    *)
(* leaves and the filter commands it issued, in order.                     *)
(***************************************************************************)
Ret(ok, rules, filter, ts, cmds) ==
    [ok |-> ok, rules |-> rules, filter |-> filter, threats |-> ts, cmds |-> cmds]

\* add_rule from the same-verdict check on: skip when the rule is at the filter,
\* else insert, persist and mark the address's threats blocked.
AddRuleInsert(rules, filter, ts, ip, normalized_action, o, cmds) ==
    LET same == RuleExists(filter, ip, normalized_action, Faulty(o, "list", 2)) IN
    IF same.found THEN Ret(TRUE, rules, filter, ts, cmds \o <<same.entry>>)
    ELSE
      LET ins == ExecuteIptablesCommand(filter, Cmd("A", ip, Target(normalized_action)),
                                        Failing(o, "insert", 1))
          issued == cmds \o <<same.entry, ins.entry>>
      IN
      IF ~ins.ok THEN Ret(FALSE, rules, filter, ts, issued)
      ELSE
        LET saved == AddFirewallRule(rules, [source_ip |-> ip, action |-> normalized_action],
                                     Faulty(o, "store_add", 1))
        IN
        IF ~saved.ok THEN Ret(FALSE, rules, ins.filter, ts, issued)
        ELSE Ret(TRUE, saved.rules, ins.filter,
                 IF normalized_action = "block"
                 THEN UpdateThreatStatus(ts, ip, "blocked", o) ELSE ts,
                 issued)

\* add_rule up to the removal of a rule with the opposing verdict.
AddRuleResolve(rules, filter, ts, ip, normalized_action, conflicting_action, o) ==
    LET conf == RuleExists(filter, ip, conflicting_action, Faulty(o, "list", 1)) IN
    IF conf.found
    THEN LET del == RemoveConflictingRule(filter, ip, conflicting_action,
                                          Failing(o, "delete", 1))
         IN  IF ~del.ok THEN Ret(FALSE, rules, filter, ts, <<conf.entry, del.entry>>)
             ELSE AddRuleInsert(RemoveFirewallRule(rules, ip, Faulty(o, "store_remove", 1)).rules,
                                del.filter, ts, ip, normalized_action, o,
                                <<conf.entry, del.entry>>)
    ELSE AddRuleInsert(rules, filter, ts, ip, normalized_action, o, <<conf.entry>>)

\* An add_rule that takes every action string it does not know for a block.
AddRuleAnyAction(rules, filter, ts, rule, o) ==
    IF ~({"source_ip", "action"} \subseteq rule.fields)
    THEN Ret(FALSE, rules, filter, ts, <<>>)
    ELSE IF Lower(rule.action) \in {"allow", "accept"}
         THEN AddRuleResolve(rules, filter, ts, rule.source_ip, "allow", "block", o)
         ELSE AddRuleResolve(rules, filter, ts, rule.source_ip, "block", "allow", o)

\* FirewallManager.add_rule.  `rule` is [fields, source_ip, action]: the keys the
\* dictionary holds, and the values of the two the method reads.
AddRule(rules, filter, ts, rule, o) ==
    IF ~({"source_ip", "action"} \subseteq rule.fields)
    THEN Ret(FALSE, rules, filter, ts, <<>>)
    ELSE LET action == Lower(rule.action) IN
         IF action \in {"block", "drop"}
         THEN AddRuleResolve(rules, filter, ts, rule.source_ip, "block", "allow", o)
         ELSE IF action \in {"allow", "accept"}
         THEN AddRuleResolve(rules, filter, ts, rule.source_ip, "allow", "block", o)
         ELSE Ret(FALSE, rules, filter, ts, <<>>)

\* remove_rule when the store holds no rule of that address: the filter is asked.
RemoveOrphan(rules, filter, ts, ip, o) ==
    LET orphan == RuleExists(filter, ip, "block", Faulty(o, "list", 1)) IN
    IF orphan.found
    THEN LET del == ExecuteIptablesCommand(filter, Cmd("D", ip, "DROP"),
                                           Failing(o, "delete", 1))
         IN  IF del.ok THEN Ret(TRUE, rules, del.filter, ts, <<orphan.entry, del.entry>>)
             ELSE Ret(FALSE, rules, filter, ts, <<orphan.entry, del.entry>>)
    ELSE Ret(FALSE, rules, filter, ts, <<orphan.entry>>)

\* remove_rule when the store holds a rule of that address.
RemovePersisted(rules, filter, ts, rule_to_remove, o) ==
    LET source_ip == rule_to_remove.source_ip
        target == IF Lower(rule_to_remove.action) \in {"block", "drop"} THEN "DROP" ELSE "ACCEPT"
        del == ExecuteIptablesCommand(filter, Cmd("D", source_ip, target),
                                      Failing(o, "delete", 1))
    IN
    IF ~del.ok THEN Ret(FALSE, rules, filter, ts, <<del.entry>>)
    ELSE LET rem == RemoveFirewallRule(rules, source_ip, Faulty(o, "store_remove", 1)) IN
         IF ~rem.ok THEN Ret(FALSE, rules, del.filter, ts, <<del.entry>>)
         ELSE Ret(TRUE, rem.rules, del.filter,
                  UpdateThreatStatus(ts, source_ip, "detected", o), <<del.entry>>)

\* FirewallManager.remove_rule, called with an address.
RemoveRule(rules, filter, ts, ip, o) ==
    LET found == {i \in 1..Len(rules) : rules[i].source_ip = ip} IN
    IF found # {}
    THEN RemovePersisted(rules, filter, ts, rules[FirstIndex(found)], o)
    ELSE RemoveOrphan(rules, filter, ts, ip, o)

\* An apply_rules that leaves the chain as it finds it before it reinserts.
KeepChain(filter, o) ==
    [ExecuteIptablesCommand(filter, Cmd("F", "", ""), 0) EXCEPT !.filter = filter]

\* The first command of apply_rules.
FlushChain(filter, o) ==
    ExecuteIptablesCommand(filter, Cmd("F", "", ""), Failing(o, "flush", 1))

RECURSIVE ReinsertFrom(_, _, _, _, _)
\* The loop of apply_rules: one insertion per persisted rule, failures ignored.
ReinsertFrom(rules, i, filter, cmds, o) ==
    IF i > Len(rules) THEN [filter |-> filter, cmds |-> cmds]
    ELSE LET action == Lower(rules[i].action) IN
         IF action \in {"block", "drop", "allow", "accept"}
         THEN LET ins == ExecuteIptablesCommand(filter,
                             Cmd("A", rules[i].source_ip, Target(action)),
                             Failing(o, "insert", i))
              IN  ReinsertFrom(rules, i + 1, ins.filter, Append(cmds, ins.entry), o)
         ELSE ReinsertFrom(rules, i + 1, filter, cmds, o)

\* An apply_rules that gives up when the flush is rejected.
AbortOnFailedFlush(rules, filter, ts, o) ==
    LET flushed == FlushChain(filter, o) IN
    IF ~flushed.ok THEN Ret(FALSE, rules, flushed.filter, ts, <<flushed.entry>>)
    ELSE LET done == ReinsertFrom(rules, 1, flushed.filter, <<flushed.entry>>, o)
         IN  Ret(TRUE, rules, done.filter, ts, done.cmds)

\* FirewallManager.apply_rules
ApplyRules(rules, filter, ts, o) ==
    LET flushed == FlushChain(filter, o)
        done == ReinsertFrom(rules, 1, flushed.filter, <<flushed.entry>>, o)
    IN  Ret(TRUE, rules, done.filter, ts, done.cmds)

(***************************************************************************)
(* SecurityMonitor.  A packet is [ip, to_local, proto, flags, dport,       *)
(* icmp_type]: whether it has an IP layer, whether its destination is the  *)
(* local address, and what the handler reads of its transport layer.       *)
(***************************************************************************)
WindowCap == 500          \* deque(maxlen=500)
ResetAfter == 300         \* inactivity after which a flow's counters are cleared
KeepFor == 300            \* age at which _cleanup_threats drops an entry
CleanupEvery == 60        \* int(current_time) % 60 == 0
RetryAfter == 30          \* re-evaluation window of a rejected candidate
DDoSMinPackets == 5       \* len(times) > 5
DDoSRate == 10            \* packet_rate > 10
DDoSSpan == 5             \* time_span > 5
ScanPorts == 3            \* len(ports) > 3
ScanSpan == 3             \* time_span < 3
BruteSyns == 5            \* syn_counts[port] > 5
BruteSpan == 5            \* time_span < 5
FloodPings == 10          \* icmp_len > 10
FloodSpan == 3            \* time_span < 3
EchoRequest == 8          \* pkt[ICMP].type == 8
MinProbability == 10      \* probability >= 0.01, in thousandths
HighProbability == 500    \* probability >= 0.5, in thousandths

IsTcp(pkt) == pkt.proto = "tcp"
IsUdp(pkt) == pkt.proto = "udp"
IsSyn(pkt) == IsTcp(pkt) /\ pkt.flags = "S"
IsEcho(pkt) == pkt.proto = "icmp" /\ pkt.icmp_type = EchoRequest

\* deque.append with maxlen: the oldest sample is dropped when the window is full
AppendBounded(q, x) == IF Len(q) >= WindowCap THEN Append(Tail(q), x) ELSE Append(q, x)

\* defaultdict(int)[k] += 1
Bump(d, k) == [x \in DOMAIN d \cup {k} |-> IF x = k THEN (IF k \in DOMAIN d THEN d[k] ELSE 0) + 1 ELSE d[x]]

\* defaultdict(int)[k], read
Get(d, k) == IF k \in DOMAIN d THEN d[k] ELSE 0

Put(d, k, v) == [x \in DOMAIN d \cup {k} |-> IF x = k THEN v ELSE d[x]]

Empty == [x \in {} |-> 0]

NewFlow(now) ==
    [times |-> <<>>, ports |-> Empty, syn_counts |-> Empty, icmp_times |-> <<>>,
     packet_count |-> 0, last_reset |-> now]

\* The counters of the packet's source after the packet has been counted.
Count(stats, pkt, now) ==
    [stats EXCEPT
        !.times = AppendBounded(@, now),
        !.packet_count = @ + 1,
        !.ports = IF IsTcp(pkt) \/ IsUdp(pkt) THEN Bump(@, pkt.dport) ELSE @,
        !.syn_counts = IF IsSyn(pkt) THEN Bump(@, pkt.dport) ELSE @,
        !.icmp_times = IF IsEcho(pkt) THEN AppendBounded(@, now) ELSE @]

\* The counters are cleared when the flow was created or cleared more than 300 s ago.
ResetIfStale(stats, now) ==
    IF now - stats.last_reset > ResetAfter
    THEN [stats EXCEPT !.times = <<>>, !.ports = Empty, !.syn_counts = Empty,
                       !.icmp_times = <<>>, !.last_reset = now]
    ELSE stats

Span(q) == q[Len(q)] - q[1]

\* A threat key as the code formats it: "<src>:<category>" or "<src>:BruteForce:<port>".
Key(src, category) == src \o ":" \o category
PortKey(src, category, port) == src \o ":" \o category \o ":" \o NumText(port)

NoCandidate == [key |-> "", type |-> "", severity |-> "medium", details |-> ""]

\* The four checks, in the order of the code.  Each takes the candidate left by
\* the checks before it and returns the candidate it leaves.
CheckDDoS(c, stats, src) ==
    IF Len(stats.times) > DDoSMinPackets
    THEN LET time_span == Span(stats.times)
             divisor == IF time_span > 0 THEN time_span ELSE 1
         IN  \* packet_rate > 10, with packet_rate = len(times) / divisor
             IF Len(stats.times) > DDoSRate * divisor /\ time_span > DDoSSpan
             THEN [key |-> Key(src, "DDoS"), type |-> "DDoS", severity |-> "high",
                   details |-> "rate"]
             ELSE [c EXCEPT !.key = Key(src, "DDoS")]
    ELSE c

CheckPortScan(c, stats, src, pkt) ==
    IF IsTcp(pkt) \/ IsUdp(pkt)
    THEN IF /\ Cardinality(DOMAIN stats.ports) > ScanPorts
            /\ Len(stats.times) > 1
            /\ Span(stats.times) < ScanSpan
         THEN [c EXCEPT !.key = Key(src, "PortScan"), !.type = "Port Scan", !.details = "ports"]
         ELSE [c EXCEPT !.key = Key(src, "PortScan")]
    ELSE c

CheckBruteForce(c, stats, src, pkt) ==
    IF IsSyn(pkt)
    THEN IF /\ Get(stats.syn_counts, pkt.dport) > BruteSyns
            /\ Len(stats.times) > 1
            /\ Span(stats.times) < BruteSpan
         THEN [c EXCEPT !.key = PortKey(src, "BruteForce", pkt.dport),
                        !.type = "Brute Force", !.details = "syns"]
         ELSE [c EXCEPT !.key = PortKey(src, "BruteForce", pkt.dport)]
    ELSE c

CheckIcmpFlood(c, stats, src, pkt) ==
    IF IsEcho(pkt)
    THEN LET icmp_len == Len(stats.icmp_times)
             time_span == IF icmp_len > 1 THEN Span(stats.icmp_times) ELSE 0
         IN  IF icmp_len > FloodPings /\ time_span < FloodSpan
             THEN [c EXCEPT !.key = Key(src, "ICMPFlood"), !.type = "ICMP Flood",
                            !.details = "pings"]
             ELSE [c EXCEPT !.key = Key(src, "ICMPFlood")]
    ELSE c

\* The candidate the rule-based detection leaves for a packet.
Detect(stats, src, pkt) ==
    CheckIcmpFlood(
        CheckBruteForce(
            CheckPortScan(
                CheckDDoS(NoCandidate, stats, src),
                stats, src, pkt),
            stats, src, pkt),
        stats, src, pkt)

\* The answer of _predict_with_ml: None, or the prediction and its probability.
NoAnswer == [prediction |-> -1, probability |-> 0]
Answer(prediction, probability) == [prediction |-> prediction, probability |-> probability]
\* A handler that takes whatever came back from the classifier for a confirmation.
AcceptedAlways(p) == TRUE

\* The test of line 245 on what _predict_with_ml returned.
Accepted(p) == p # NoAnswer /\ p.prediction = 1 /\ p.probability >= MinProbability

\* _cleanup_threats
Younger(d, now) == [k \in {k \in DOMAIN d : now - d[k] < KeepFor} |-> d[k]]

CleanupThreats(m, now) ==
    [m EXCEPT
        !.packet_counts =
            [ip \in {ip \in DOMAIN m.packet_counts :
                        now - m.packet_counts[ip].last_reset < KeepFor}
                |-> m.packet_counts[ip]],
        !.reported_threats = Younger(@, now),
        !.detection_attempts = Younger(@, now)]

\* The end of _analyze_packet.
CleanupIfDue(m, now) ==
    IF now % CleanupEvery = 0 THEN CleanupThreats(m, now) ELSE m

\* DataManager.add_threat
AddThreat(ts, threat, fails) == IF fails THEN ts ELSE Append(ts, threat)

\* A _report_threat that needs the broadcast manager before it does anything:
\* without one the threat is created and nothing else happens.
ReportNeedsManager(m, src, c, severity, now, env) ==
    LET created == Append(m.log.created,
                          [key |-> c.key, type |-> c.type, time |-> now,
                           id |-> Len(m.log.created) + 1,
                           reported |-> c.key \in DOMAIN m.reported_threats])
    IN  IF env.websocket_manager
        THEN [m EXCEPT
                !.reported_threats = Put(@, c.key, now),
                !.threats = AddThreat(@, [id |-> Len(m.log.created) + 1, source |-> src,
                                          type |-> c.type, severity |-> severity,
                                          status |-> "detected", timestamp |-> now,
                                          details |-> c.details], env.store_fails),
                !.log = [@ EXCEPT !.created = created, !.broadcasts = @ + 1]]
        ELSE [m EXCEPT !.log = [@ EXCEPT !.created = created]]

\* _create_threat followed by _report_threat.  m is the monitor's state with the
\* store's threats and the log; env is what surrounds the handler for this packet.
CreateAndReport(m, src, c, severity, now, env) ==
    LET threat == [id |-> Len(m.log.created) + 1, source |-> src, type |-> c.type,
                   severity |-> severity, status |-> "detected", timestamp |-> now,
                   details |-> c.details]
    IN  [m EXCEPT
            !.reported_threats = Put(@, c.key, now),
            !.threats = AddThreat(@, threat, env.store_fails),
            !.log = [@ EXCEPT
                        !.created = Append(@, [key |-> c.key, type |-> c.type, time |-> now,
                                               id |-> threat.id,
                                               reported |-> c.key \in DOMAIN m.reported_threats]),
                        !.broadcasts = IF env.websocket_manager THEN @ + 1 ELSE @]]

\* The branch of _analyze_packet that asks the remote classifier.
Escalate(m, src, c, now, env) ==
    LET asked == [m EXCEPT !.log = [@ EXCEPT !.ml_calls =
                        Append(@, [key |-> c.key, time |-> now, answer |-> env.ml])]]
    IN  IF Accepted(env.ml)
        THEN CreateAndReport(asked, src, c,
                             IF env.ml.probability >= HighProbability THEN "high" ELSE "medium",
                             now, env)
        ELSE [asked EXCEPT !.detection_attempts = Put(@, c.key, now)]

\* A check of the reported set that never finds the key.
NeverReported(m, key) == FALSE

\* A check of the detection attempts that never finds a recent one.
NeverAttempted(m, key, now) == FALSE

\* threat_key in self.reported_threats
AlreadyReported(m, key) == key \in DOMAIN m.reported_threats

\* The candidate's key has a detection attempt less than 30 s old.
RecentlyAttempted(m, key, now) ==
    /\ key \in DOMAIN m.detection_attempts
    /\ now - m.detection_attempts[key] < RetryAfter

\* The handler returns without evaluating the candidate; the log keeps why.
Skip(m, c, now, why) ==
    [m EXCEPT !.log = [@ EXCEPT !.skipped =
                          @ \cup {[key |-> c.key, type |-> c.type, time |-> now, why |-> why]}]]

\* What _analyze_packet does with a candidate; `done` tells that it returned early.
Evaluate(m, src, c, now, env) ==
    IF AlreadyReported(m, c.key) THEN [m |-> Skip(m, c, now, "reported"), done |-> TRUE]
    ELSE IF RecentlyAttempted(m, c.key, now)
         THEN [m |-> Skip(m, c, now, "attempted"), done |-> TRUE]
    ELSE IF env.session THEN [m |-> Escalate(m, src, c, now, env), done |-> FALSE]
    ELSE [m |-> CreateAndReport(m, src, c, c.severity, now, env), done |-> FALSE]

\* A handler that does not look at the lockdown flag.
AnalyzeInLockdown(m, src, pkt, now, env) ==
    IF ~pkt.ip \/ ~pkt.to_local THEN m
    ELSE
      LET known == IF src \in DOMAIN m.packet_counts THEN m.packet_counts[src] ELSE NewFlow(now)
          stats == ResetIfStale(Count(known, pkt, now), now)
          counted == [m EXCEPT !.packet_counts = Put(@, src, stats)]
          c == Detect(stats, src, pkt)
      IN  IF c.type # ""
          THEN LET e == Evaluate(counted, src, c, now, env)
               IN  IF e.done THEN e.m ELSE CleanupIfDue(e.m, now)
          ELSE CleanupIfDue(counted, now)

\* SecurityMonitor._analyze_packet
AnalyzePacket(m, src, pkt, now, env) ==
    IF env.is_locked_down \/ ~pkt.ip \/ ~pkt.to_local THEN m
    ELSE
      LET known == IF src \in DOMAIN m.packet_counts THEN m.packet_counts[src] ELSE NewFlow(now)
          stats == ResetIfStale(Count(known, pkt, now), now)
          counted == [m EXCEPT !.packet_counts = Put(@, src, stats)]
          c == Detect(stats, src, pkt)
      IN  IF c.type # ""
          THEN LET e == Evaluate(counted, src, c, now, env)
               IN  IF e.done THEN e.m ELSE CleanupIfDue(e.m, now)
          ELSE CleanupIfDue(counted, now)

RECURSIVE AnalyzeFrom(_, _, _, _, _, _)
\* The handler called for the packets pkts[i], pkts[i+1], ... of one source, one
\* after the other, within one second.
AnalyzeFrom(m, src, pkts, i, now, env) ==
    IF i > Len(pkts) THEN m
    ELSE LET after == AnalyzePacket(m, src, pkts[i], now, env)
         IN  \* the handler has returned before it is called again
             IF after.log.broadcasts >= 0
             THEN AnalyzeFrom(after, src, pkts, i + 1, now, env)
             ELSE after

(***************************************************************************)
(* The state machine.                                                      *)
(***************************************************************************)
\* The threads that use the DataManager: the executor thread that runs the
\* capture loop, and the event loop that runs the request handlers.
Threads == {"capture", "loop"}

\* data["stats"] of a new data file.
NoStats == [total_threats |-> 0, blocked_attacks |-> 0]

NoData == [firewall_rules |-> <<>>, threats |-> <<>>, stats |-> NoStats]

NoThreat == [id |-> 0, source |-> "", type |-> "", severity |-> "", status |-> "",
             timestamp |-> 0, details |-> ""]

NoRule == [source_ip |-> "", action |-> ""]

\* A call of a DataManager helper: who makes it, and its arguments.
HelperCall(helper, caller, threat, rule, id, status, st) ==
    [helper |-> helper, caller |-> caller, threat |-> threat, rule |-> rule,
     id |-> id, status |-> status, stats |-> st]

NoCall == HelperCall("", "", NoThreat, NoRule, 0, "", NoStats)

\* A thread that is inside no helper and no handler.
Waiting == [pc |-> "idle", call |-> NoCall, data |-> NoData,
            handler |-> NoCall, held |-> NoData, then |-> ""]

\* No coroutine of the WebSocketManager is in this slot.
Finished == [op |-> "", client_id |-> 0, pc |-> "done", todo |-> {}, disconnected |-> {}]

NoLog == [created |-> <<>>, ml_calls |-> <<>>, skipped |-> {}, broadcasts |-> 0]

NoPre == [persisted |-> {}, filter |-> {}, synced |-> TRUE]

Verdict(target) == IF target = "ACCEPT" THEN "allow" ELSE "block"

\* The chain and the persisted rules as sets of (address, verdict).
FilterSet(filter) == {<<filter[i].source, Verdict(filter[i].target)>> : i \in 1..Len(filter)}
PersistedSet(rules) ==
    {<<rules[i].source_ip, Verdict(Target(Lower(rules[i].action)))>> : i \in 1..Len(rules)}

\* What an operation on address ip finds: the verdicts persisted for ip, the
\* targets the chain holds for exactly ip, and whether chain and store agree.
Pre(ip) ==
    [persisted |-> {firewall_rules[i].action :
                        i \in {j \in 1..Len(firewall_rules) : firewall_rules[j].source_ip = ip}},
     filter |-> {iptables[i].target : i \in {j \in 1..Len(iptables) : iptables[j].source = ip}},
     synced |-> FilterSet(iptables) = PersistedSet(firewall_rules)]

Op(op, ip, action, ok, cmds, faults, pre) ==
    [op |-> op, ip |-> ip, action |-> action, ok |-> ok, cmds |-> cmds,
     faults |-> faults, pre |-> pre]

\* No operation's result is waiting to be returned.
Idle == Op("idle", "", "", TRUE, <<>>, {}, NoPre)

\* The state after construction, with the exploration's budget.
Start(bursts, ticks) ==
    /\ firewall_rules = <<>>
    /\ threats = <<>>
    /\ iptables = <<>>
    /\ packet_counts = [ip \in {} |-> NewFlow(0)]
    /\ reported_threats = Empty
    /\ detection_attempts = Empty
    /\ session = FALSE
    /\ websocket_manager = FALSE
    /\ is_locked_down = FALSE
    /\ clock = StartTime
    /\ log = NoLog
    /\ budget = [bursts |-> bursts, ticks |-> ticks]
    /\ last = Idle
    /\ store_stats = NoStats
    /\ running = [t \in Threads |-> Waiting]
    /\ completed = <<>>
    /\ clients = {}
    /\ coroutines = [i \in 1..MaxCoroutines |-> Finished]

Init == Start(MaxBursts, MaxTicks)
InitFw == Start(MaxDetections, 0)

\* ---- firewall operations (the asynchronous context) ----
FirewallStep(op, ip, action, r, o) ==
    /\ last = Idle
    /\ Len(r.rules) <= MaxRules
    /\ Len(r.filter) <= MaxRules
    /\ firewall_rules' = r.rules
    /\ iptables' = r.filter
    /\ threats' = r.threats
    /\ last' = Op(op, ip, action, r.ok, r.cmds, o.faults, Pre(ip))
    /\ UNCHANGED <<wsVars, callVars, monitorVars, switchVars, clock, log, budget>>

AddRulePoints ==
    {<<"list", 1>>, <<"list", 2>>, <<"delete", 1>>, <<"insert", 1>>,
     <<"store_remove", 1>>, <<"store_add", 1>>}
        \cup {<<"store_update", i>> : i \in 1..Len(threats)}

RemoveRulePoints ==
    {<<"list", 1>>, <<"delete", 1>>, <<"store_remove", 1>>}
        \cup {<<"store_update", i>> : i \in 1..Len(threats)}

ApplyRulesPoints == {<<"flush", 1>>} \cup {<<"insert", i>> : i \in 1..Len(firewall_rules)}

\* The verdict add_rule makes of an action string; "" when it rejects it.
Normalized(action) ==
    IF Lower(action) \in {"block", "drop"} THEN "block"
    ELSE IF Lower(action) \in {"allow", "accept"} THEN "allow" ELSE ""

\* An oracle is taken only if each of its faults changes what the operation does.
Without(o, p) == [o EXCEPT !.faults = @ \ {p}]

add_rule(rule, o) ==
    /\ last = Idle
    /\ \A p \in o.faults :
          AddRule(firewall_rules, iptables, threats, rule, Without(o, p))
              # AddRule(firewall_rules, iptables, threats, rule, o)
    /\ FirewallStep("add_rule", rule.source_ip, Normalized(rule.action),
                 AddRule(firewall_rules, iptables, threats, rule, o), o)

remove_rule(ip, o) ==
    /\ last = Idle
    /\ \A p \in o.faults :
          RemoveRule(firewall_rules, iptables, threats, ip, Without(o, p))
              # RemoveRule(firewall_rules, iptables, threats, ip, o)
    /\ FirewallStep("remove_rule", ip, "",
                 RemoveRule(firewall_rules, iptables, threats, ip, o), o)

apply_rules(o) ==
    /\ last = Idle
    /\ \A p \in o.faults :
          ApplyRules(firewall_rules, iptables, threats, Without(o, p))
              # ApplyRules(firewall_rules, iptables, threats, o)
    /\ FirewallStep("apply_rules", "", "",
                 ApplyRules(firewall_rules, iptables, threats, o), o)

\* ---- the external filter changing under the program ----
\* The chain loses a rule (the container restarted, an operator deleted it).
FilterLoses(i) ==
    /\ last = Idle
    /\ i \in 1..Len(iptables)
    /\ iptables' = RemoveAt(iptables, i)
    /\ UNCHANGED <<wsVars, callVars, storeVars, monitorVars, switchVars, clock, log, budget, last>>

\* The operation's result has been handed to its caller; the next may start.
Return ==
    /\ last # Idle
    /\ last' = Idle
    /\ UNCHANGED <<wsVars, callVars, storeVars, iptables, monitorVars, switchVars, clock, log, budget>>

\* ---- the capture thread ----
\* The monitor after the handler has run on a train of packets from src, with the
\* classifier answering ml and add_threat failing or not.
Analyzed(src, pkts, ml, store_fails) ==
    AnalyzeFrom([packet_counts |-> packet_counts, reported_threats |-> reported_threats,
                 detection_attempts |-> detection_attempts, threats |-> threats, log |-> log],
                src, pkts, 1, clock,
                [session |-> session, websocket_manager |-> websocket_manager,
                 is_locked_down |-> is_locked_down, ml |-> ml, store_fails |-> store_fails])

\* The oracles that make a difference to the train: an answer only if the
\* classifier is asked, a failing store only if a threat is written.
AnswersFor(src, pkts, answers) ==
    IF session /\ Len(Analyzed(src, pkts, NoAnswer, FALSE).log.ml_calls) > Len(log.ml_calls)
    THEN answers ELSE {NoAnswer}

FailuresFor(src, pkts, ml, failures) ==
    IF Len(Analyzed(src, pkts, ml, FALSE).log.created) > Len(log.created)
    THEN failures ELSE {FALSE}

\* The capture thread hands a train of packets to _analyze_packet; the classifier
\* answers with one of `answers`, add_threat fails or not as `failures` allows.
analyze_packets(src, pkts, answers, failures) ==
    /\ last = Idle
    /\ budget.bursts > 0
    /\ \E ml \in AnswersFor(src, pkts, answers) :
          \E store_fails \in FailuresFor(src, pkts, ml, failures) :
              LET r == Analyzed(src, pkts, ml, store_fails)
              IN  /\ packet_counts' = r.packet_counts
                  /\ reported_threats' = r.reported_threats
                  /\ detection_attempts' = r.detection_attempts
                  /\ threats' = r.threats
                  /\ log' = r.log
    /\ budget' = [budget EXCEPT !.bursts = @ - 1]
    /\ UNCHANGED <<wsVars, callVars, firewall_rules, iptables, switchVars, clock, last>>

Tick(d) ==
    /\ last = Idle
    /\ budget.ticks > 0
    /\ clock' = clock + d
    /\ budget' = [budget EXCEPT !.ticks = @ - 1]
    /\ UNCHANGED <<wsVars, callVars, storeVars, iptables, monitorVars, switchVars, log, last>>

\* start_live_monitoring opens the HTTP session the classifier is reached through
start_live_monitoring ==
    /\ ~session
    /\ DOMAIN packet_counts = {}
    /\ session' = TRUE
    /\ UNCHANGED <<wsVars, callVars, storeVars, iptables, monitorVars, websocket_manager, is_locked_down,
                   clock, log, budget, last>>

\* main.py, lifespan: security_monitor.websocket_manager = websocket_manager
attach_websocket_manager ==
    /\ ~websocket_manager
    /\ DOMAIN packet_counts = {}
    /\ websocket_manager' = TRUE
    /\ UNCHANGED <<wsVars, callVars, storeVars, iptables, monitorVars, session, is_locked_down,
                   clock, log, budget, last>>

set_lockdown_state(is_locked) ==
    /\ is_locked_down # is_locked
    /\ is_locked_down' = is_locked
    /\ UNCHANGED <<wsVars, callVars, storeVars, iptables, monitorVars, session, websocket_manager,
                   clock, log, budget, last>>

\* ---- inputs ----
Packet(proto, flags, dport, icmp_type) ==
    [ip |-> TRUE, to_local |-> TRUE, proto |-> proto, flags |-> flags, dport |-> dport,
     icmp_type |-> icmp_type]

Syn(port) == Packet("tcp", "S", port, 0)
Ack(port) == Packet("tcp", "A", port, 0)
Udp(port) == Packet("udp", "", port, 0)
Echo == Packet("icmp", "", 0, EchoRequest)
EchoReply == Packet("icmp", "", 0, 0)
OtherIp == Packet("other", "", 0, 0)
NotIp == [OtherIp EXCEPT !.ip = FALSE]
Elsewhere == [OtherIp EXCEPT !.to_local = FALSE]

Repeat(pkt, n) == [i \in 1..n |-> pkt]

RuleInputs ==
    {[fields |-> {"source_ip", "action"}, source_ip |-> a, action |-> v] :
        a \in Addrs, v \in {"block", "DROP", "allow", "Accept"}}
    \cup {[fields |-> {"source_ip", "action"}, source_ip |-> "10.0.0.1", action |-> "deny"],
          [fields |-> {"source_ip"}, source_ip |-> "10.0.0.1", action |-> ""],
          [fields |-> {"action"}, source_ip |-> "", action |-> "block"]}

Answers == {NoAnswer, Answer(0, 900), Answer(1, 5), Answer(1, 10), Answer(1, 500)}

TickSteps == {1, 6, 300}

FirewallNext ==
    \/ \E rule \in RuleInputs, o \in Oracles(AddRulePoints) : add_rule(rule, o)
    \/ \E ip \in Addrs, o \in Oracles(RemoveRulePoints) : remove_rule(ip, o)
    \/ \E o \in Oracles(ApplyRulesPoints) : apply_rules(o)
    \/ \E i \in 1..Len(iptables) : FilterLoses(i)
    \/ Return

\* The firewall with the detections it acts on: SYN floods on two ports.
FwPackets == {Repeat(Syn(22), 6), Repeat(Syn(80), 6)}

NextFw ==
    \/ FirewallNext
    \/ \E pkts \in FwPackets : analyze_packets("10.0.0.1", pkts, {NoAnswer}, {FALSE})

SpecFw == InitFw /\ [][NextFw]_vars

(***************************************************************************)
(* Firewall Reconciliation Engine: the properties, under SpecFw.           *)
(***************************************************************************)
\* The commands of a sequence that change the chain, in order.
Mutating(cmds) == SelectSeq(cmds, LAMBDA e : e.op \in {"A", "D", "F"})
Insertions(cmds) == SelectSeq(cmds, LAMBDA e : e.op = "A")
AllOk(cmds) == \A i \in 1..Len(cmds) : cmds[i].ok

RulesOf(rules, ip) == {i \in 1..Len(rules) : rules[i].source_ip = ip}
ThreatsOf(ts, ip) == {i \in 1..Len(ts) : ts[i].source = ip}

BlockRule(ip) == [fields |-> {"source_ip", "action"}, source_ip |-> ip, action |-> "block"]

\* C1: after any sequence of add_rule, remove_rule and apply_rules calls, failing
\* commands, failing store writes and rules lost at the filter included, the
\* persisted firewall_rules list holds at most one rule per source address.
C1_AtMostOneRulePerAddress ==
    \A ip \in Addrs : Cardinality(RulesOf(firewall_rules, ip)) <= 1

\* C2: add_rule(address, block) called twice in a row on an address that has no
\* rule, every filter command and store write succeeding, returns success both
\* times, leaves exactly one persisted rule of the address and issues exactly one
\* insertion command.  `last` is the first call; the second is add_rule applied
\* to the state the first has left.
C2_AddRuleBlockTwiceIdempotent ==
    LET second == AddRule(firewall_rules, iptables, threats, BlockRule(last.ip), NoFaults) IN
    (/\ last.op = "add_rule" /\ last.action = "block" /\ last.ip \in Addrs
     /\ last.faults = {} /\ last.pre.persisted = {} /\ last.pre.filter = {}
     /\ AllOk(last.cmds) /\ AllOk(second.cmds))
    => /\ last.ok /\ second.ok
       /\ Cardinality(RulesOf(second.rules, last.ip)) = 1
       /\ Len(Insertions(last.cmds \o second.cmds)) = 1

\* C3: when a block rule of an address is persisted and at the filter (and the
\* filter holds no rule of another address), add_rule(address, allow) issues
\* exactly one removal command, of the block rule, then exactly one insertion
\* command, of the allow rule, and afterwards every persisted threat of the
\* address has status detected.
C3_AllowOverBlock ==
    (/\ last.op = "add_rule" /\ last.action = "allow" /\ last.ip \in Addrs
     /\ last.faults = {} /\ last.pre.persisted = {"block"} /\ last.pre.filter = {"DROP"}
     /\ \A i \in 1..Len(iptables) : iptables[i].source = last.ip)
    => /\ Len(Mutating(last.cmds)) = 2
       /\ LET m == Mutating(last.cmds)
          IN  /\ <<m[1].op, m[1].source, m[1].target>> = <<"D", last.ip, "DROP">>
              /\ <<m[2].op, m[2].source, m[2].target>> = <<"A", last.ip, "ACCEPT">>
       /\ \A i \in ThreatsOf(threats, last.ip) : threats[i].status = "detected"

\* C4: remove_rule on an address that has no persisted rule and no rule at the
\* filter returns success and issues no command that changes the filter.
C4_RemoveNothingSucceeds ==
    (/\ last.op = "remove_rule" /\ last.faults = {}
     /\ last.pre.persisted = {} /\ last.pre.filter = {})
    => last.ok /\ Mutating(last.cmds) = <<>>

C10_TransientFailureRetried ==
    \A i \in 1..Len(last.cmds) :
        (/\ last.cmds[i].op \in {"A", "D", "F"}
         /\ last.cmds[i].applies
         /\ last.cmds[i].failing \in 1..2)
        => last.cmds[i].ok /\ last.ok

\* Packet trains the capture thread is fed, all from one source.
MonPackets ==
    {Repeat(Syn(22), 6), <<Syn(22)>>, <<Ack(443)>>,
     <<Syn(22), Syn(80), Ack(443), Udp(53)>>,
     Repeat(Echo, 11), <<Echo>>, <<EchoReply>>,
     Repeat(OtherIp, 61), <<OtherIp>>, <<NotIp, Elsewhere>>}

MonitorNext ==
    \/ \E pkts \in MonPackets : analyze_packets("10.0.0.1", pkts, Answers, BOOLEAN)
    \/ \E d \in TickSteps : Tick(d)
    \/ start_live_monitoring

SpecMon == Init /\ [][MonitorNext]_vars

(***************************************************************************)
(* Deduplication and escalation: the properties, under SpecMon.            *)
(***************************************************************************)
Created == 1..Len(log.created)
Asked == 1..Len(log.ml_calls)

\* C6: with no remote classifier, whatever the packets of a source that keeps
\* exceeding the volumetric-flood threshold are, no two threats of type DDoS are
\* created for the source less than 300 s apart.
C6_OneDDoSPerWindow ==
    ~session =>
        \A i, j \in Created :
            (i < j /\ log.created[i].type = "DDoS" /\ log.created[j].type = "DDoS")
            => log.created[j].time - log.created[i].time >= KeepFor

\* C7: no threat is created under a key that is in the reported set when its
\* candidate is evaluated.
C7_NoThreatWhileReported ==
    \A i \in Created : ~log.created[i].reported

\* C7, witness: a candidate was evaluated while its key was in the reported set,
\* after a threat had been created under that key, and the handler returned.
C7_SuppressedWhileReported ==
    \E s \in log.skipped :
        /\ s.why = "reported"
        /\ \E i \in Created : log.created[i].key = s.key

\* C9: when the classifier answers prediction 0 for a candidate, no threat is
\* created for it, a detection attempt of its key is recorded with the time of
\* the call, and for the next 30 s no candidate of that key reaches the
\* classifier or becomes a threat.
C9_RejectedCandidateSuppressed ==
    \A i \in Asked :
        LET call == log.ml_calls[i] IN
        call.answer.prediction = 0 =>
            /\ \A j \in Created :
                  log.created[j].key = call.key
                  => ~(log.created[j].time - call.time \in 0..(RetryAfter - 1))
            /\ \A j \in Asked :
                  (j > i /\ log.ml_calls[j].key = call.key)
                  => log.ml_calls[j].time - call.time >= RetryAfter
            /\ clock - call.time < RetryAfter =>
                  /\ call.key \in DOMAIN detection_attempts
                  /\ detection_attempts[call.key] = call.time

\* C9, witness: the classifier answered prediction 0 for a candidate, and a later
\* candidate of the same key was suppressed because of that attempt.
C9_SuppressedAfterRejection ==
    \E i \in Asked, s \in log.skipped :
        /\ log.ml_calls[i].answer.prediction = 0
        /\ s.key = log.ml_calls[i].key
        /\ s.why = "attempted"
        /\ s.time - log.ml_calls[i].time < RetryAfter

(***************************************************************************)
(* The scenario of a connection flood that is then blocked: a fresh        *)
(* monitor without classifier, one source sending 15 SYN packets to port   *)
(* 22 over at most 4 seconds, then add_rule(source, block), the store and  *)
(* the filter working.                                                     *)
(***************************************************************************)
Attacker == "10.0.0.1"

InitC8 == Start(15, 4)

NextC8 ==
    \/ analyze_packets(Attacker, <<Syn(22)>>, {NoAnswer}, {FALSE})
    \/ Tick(1)
    \/ budget.bursts = 0 /\ add_rule(BlockRule(Attacker), NoFaults)
    \/ Return

SpecC8 == InitC8 /\ [][NextC8]_vars

DropRules(ip) == {i \in 1..Len(iptables) : iptables[i] = [source |-> ip, target |-> "DROP"]}

\* C8: once the source has sent its 15 SYN packets to one port within 4 seconds,
\* no classifier being configured, exactly one threat is persisted, of that
\* source and of type Brute Force; its status is detected until add_rule(source,
\* block) has succeeded, and from then on it is blocked and the filter holds
\* exactly one DROP rule of the source.
C8_BruteForceThenBlock ==
    budget.bursts = 0 =>
        /\ Len(threats) = 1
        /\ threats[1].source = Attacker
        /\ threats[1].type = "Brute Force"
        /\ threats[1].status = IF firewall_rules = <<>> THEN "detected" ELSE "blocked"
        /\ (last.op = "add_rule" => last.ok)
        /\ (firewall_rules # <<>> => Cardinality(DropRules(Attacker)) = 1 /\ Len(iptables) = 1)

\* C8, witness: the 15 SYN packets were spread over 4 seconds, and add_rule has
\* just returned success.
C8_FloodBlocked ==
    /\ budget.bursts = 0
    /\ Span(packet_counts[Attacker].times) = 4
    /\ Len(packet_counts[Attacker].times) = 15
    /\ last.op = "add_rule" /\ last.ok
    /\ threats[1].status = "blocked"

(***************************************************************************)
(* Failure handling of the Reconciliation Engine, under SpecFw.  A step of *)
(* an operation is a step that sets `last` to the operation's result.      *)
(***************************************************************************)
Called(ops) == last = Idle /\ last'.op \in ops

CommandFailed(cmds) == \E i \in 1..Len(cmds) : cmds[i].op \in {"A", "D", "F"} /\ ~cmds[i].ok

\* C11: whenever add_rule or remove_rule returns failure because a filter command
\* failed, the persisted firewall_rules and the persisted threats are as they
\* were before the call.
C11_FailureLeavesStoreUnchanged ==
    [][(Called({"add_rule", "remove_rule"}) /\ ~last'.ok /\ CommandFailed(last'.cmds))
       => (firewall_rules' = firewall_rules /\ threats' = threats)]_vars

\* The deletion the operation issued found no such rule at the chain, and the
\* environment did not fail it.
DeletedAbsent(cmds) ==
    \E i \in 1..Len(cmds) : cmds[i].op = "D" /\ ~cmds[i].applies /\ cmds[i].failing = 0

\* C12: a deletion command that fails because the rule is not at the filter counts
\* as a successful deletion: remove_rule for a persisted rule whose filter rule is
\* gone returns success and removes the rule from the persisted set.
C12_AbsentRuleDeletionSucceeds ==
    [][(Called({"remove_rule"}) /\ RulesOf(firewall_rules, last'.ip) # {}
            /\ DeletedAbsent(last'.cmds))
       => (last'.ok /\ Len(firewall_rules') = Len(firewall_rules) - 1)]_vars

\* The rule handed to add_rule lacks source_ip or action, or its action is none
\* of block, drop, allow, accept (in any case of letters).
Rejected(op) == op.op = "add_rule" /\ (op.ip = "" \/ op.action = "")

\* C13: add_rule called with a rule missing source_ip or action, or with an action
\* that is none of block/drop/allow/accept, returns failure without issuing any
\* filter command (neither a listing nor a mutation) and without changing the
\* persisted rules or threats.
C13_InvalidRuleRejected ==
    [][(last = Idle /\ Rejected(last'))
       => (~last'.ok /\ last'.cmds = <<>>
            /\ firewall_rules' = firewall_rules /\ threats' = threats
            /\ iptables' = iptables)]_vars

\* C13, its case: an invalid rule was rejected while the store held a rule, a
\* threat, and the chain a rule.
C13_RejectedWithRulesInPlace ==
    /\ Rejected(last) /\ ~last.ok /\ last.cmds = <<>>
    /\ firewall_rules # <<>> /\ threats # <<>> /\ iptables # <<>>

\* add_rule found a rule of the opposing verdict at the chain and its removal
\* command failed.
RemovalFailed(op) ==
    /\ op.op = "add_rule"
    /\ \E i \in 1..Len(op.cmds) : op.cmds[i].op = "D" /\ ~op.cmds[i].ok

\* C14: in add_rule, when a rule with the opposing verdict exists at the filter and
\* its removal command fails, add_rule returns failure, issues no insertion, adds
\* no rule to and removes none from the persisted set, and changes no threat.
C14_FailedRemovalAborts ==
    [][(last = Idle /\ RemovalFailed(last'))
       => (~last'.ok /\ Insertions(last'.cmds) = <<>>
            /\ firewall_rules' = firewall_rules /\ threats' = threats)]_vars

\* C14, its case: the removal failed in an add_rule(allow) for an address with a
\* persisted block rule and a blocked threat.
C14_RemovalFailedOnBlockedAddress ==
    /\ RemovalFailed(last) /\ ~last.ok /\ last.action = "allow"
    /\ "block" \in last.pre.persisted
    /\ \E i \in ThreatsOf(threats, last.ip) : threats[i].status = "blocked"

\* C16: after every successful remove_rule for an address, whether the rule was
\* found in the persisted set or only as an orphaned block rule at the filter,
\* every persisted threat of that address has status detected.  Stated for calls
\* in which the environment failed nothing.
C16_RemovedAddressDetected ==
    (last.op = "remove_rule" /\ last.ok /\ last.faults = {})
        => \A i \in ThreatsOf(threats, last.ip) : threats[i].status = "detected"

(***************************************************************************)
(* The DataManager under two threads.  load_data and save_data each hold   *)
(* the lock for one read or one write of the file; a helper is a           *)
(* load_data, a change of the copy it returned and a save_data of that     *)
(* copy, and the lock is free in between.                                  *)
(***************************************************************************)
MaxCalls == 4        \* store operations begun by the two threads together

\* The JSON document as load_data returns it.
Document == [firewall_rules |-> firewall_rules, threats |-> threats, stats |-> store_stats]

\* The counts _report_threat and get_current_stats take from a loaded document.
CountedStats(data) ==
    [total_threats |-> Len(data.threats), blocked_attacks |-> Len(data.firewall_rules)]

\* What the request handlers do to the copy they hold: the first threat of the
\* address gets the status.
MarkFirst(ts, ip, status) ==
    LET found == {i \in 1..Len(ts) : ts[i].source = ip} IN
    IF found # {} THEN [ts EXCEPT ![FirstIndex(found)] = [@ EXCEPT !.status = status]]
    ELSE ts

\* Whether the helper reaches its save_data with this copy.
Writes(call, data) ==
    CASE call.helper = "remove_firewall_rule" ->
            \E i \in 1..Len(data.firewall_rules) :
                data.firewall_rules[i].source_ip = call.rule.source_ip
      [] call.helper = "update_threat" ->
            \E i \in 1..Len(data.threats) : data.threats[i].id = call.id
      [] call.helper = "save_data" ->
            \E i \in 1..Len(data.threats) : data.threats[i].source = call.rule.source_ip
      [] OTHER -> TRUE

\* The copy the helper hands to save_data.
Changed(call, data) ==
    CASE call.helper = "add_threat" ->
            [data EXCEPT !.threats = AddThreat(@, call.threat, FALSE),
                         !.stats = [@ EXCEPT !.total_threats = @ + 1,
                                             !.blocked_attacks =
                                                 IF call.threat.status = "blocked"
                                                 THEN @ + 1 ELSE @]]
      [] call.helper = "update_stats" -> [data EXCEPT !.stats = call.stats]
      [] call.helper = "add_firewall_rule" ->
            [data EXCEPT !.firewall_rules = AddFirewallRule(@, call.rule, FALSE).rules]
      [] call.helper = "remove_firewall_rule" ->
            [data EXCEPT !.firewall_rules =
                             RemoveFirewallRule(@, call.rule.source_ip, FALSE).rules]
      [] call.helper = "update_threat" ->
            [data EXCEPT !.threats = UpdateThreat(@, call.id, call.status, FALSE),
                         !.stats = [@ EXCEPT !.blocked_attacks =
                                        IF call.status = "blocked"
                                           /\ \E i \in 1..Len(data.threats) :
                                                 /\ data.threats[i].id = call.id
                                                 /\ data.threats[i].status = "detected"
                                        THEN @ + 1 ELSE @]]
      [] call.helper = "save_data" ->
            [data EXCEPT !.threats = MarkFirst(@, call.rule.source_ip, call.status)]

\* The file after a thread has gone through a helper with the copy it holds.
Saved(call, data) == IF Writes(call, data) THEN Changed(call, data) ELSE Document

Write(doc) ==
    /\ firewall_rules' = doc.firewall_rules
    /\ threats' = doc.threats
    /\ store_stats' = doc.stats

Done(t, call, wrote) == Append(completed, [thread |-> t, call |-> call, wrote |-> wrote])

\* A thread enters a helper.  `then` is what the caller does next: _report_threat
\* goes from add_threat to update_stats, a request handler from update_stats to
\* the save_data of the copy it holds.
helper_called(t, c) ==
    /\ running[t].pc = "idle"
    /\ \/ running[t].then = "" /\ c.helper # "update_stats" /\ budget.bursts > 0
          /\ budget' = [budget EXCEPT !.bursts = @ - 1]
       \/ running[t].then = "update_stats" /\ c.helper = "update_stats"
          /\ budget' = budget
    /\ running' = [running EXCEPT ![t] = [@ EXCEPT !.pc = "called", !.call = c]]
    /\ UNCHANGED <<wsVars, storeVars, store_stats, completed, iptables, monitorVars, switchVars,
                   clock, log, last>>

\* DataManager.load_data, as the first statement of a helper.
load_data(t) ==
    /\ running[t].pc = "called"
    /\ running' = [running EXCEPT ![t] = [@ EXCEPT !.pc = "loaded", !.data = Document]]
    /\ UNCHANGED <<wsVars, storeVars, store_stats, completed, iptables, monitorVars, switchVars,
                   clock, log, budget, last>>

\* DataManager.save_data, as the last statement of a helper, and the return.
save_data(t) ==
    /\ running[t].pc = "loaded"
    /\ LET c == running[t].call
           data == running[t].data
       IN  /\ Write(Saved(c, data))
           /\ completed' = Done(t, c, Writes(c, data))
           /\ running' = [running EXCEPT ![t] =
                  [@ EXCEPT !.pc = "idle", !.call = NoCall, !.data = NoData,
                            !.then = IF c.helper = "add_threat" THEN "update_stats"
                                     ELSE IF c.helper = "update_stats" /\ @ = "update_stats"
                                               /\ running[t].handler # NoCall
                                          THEN "save_data" ELSE ""]]
    /\ UNCHANGED <<wsVars, iptables, monitorVars, switchVars, clock, log, budget, last>>

\* A request handler of main.py after its firewall operation has succeeded:
\* data = data_manager.load_data().
handler_load_data(c) ==
    /\ running["loop"].pc = "idle"
    /\ running["loop"].then = ""
    /\ budget.bursts > 0
    /\ budget' = [budget EXCEPT !.bursts = @ - 1]
    /\ running' = [running EXCEPT !["loop"] =
           [@ EXCEPT !.handler = c, !.held = Document, !.then = "update_stats"]]
    /\ UNCHANGED <<wsVars, storeVars, store_stats, completed, iptables, monitorVars, switchVars,
                   clock, log, last>>

\* The handler's data_manager.save_data(data), if it found a threat of the address.
handler_save_data ==
    /\ running["loop"].pc = "idle"
    /\ running["loop"].then = "save_data"
    /\ LET c == running["loop"].handler
           data == running["loop"].held
       IN  /\ Write(Saved(c, data))
           /\ completed' = Done("loop", c, Writes(c, data))
    /\ running' = [running EXCEPT !["loop"] = Waiting]
    /\ UNCHANGED <<wsVars, iptables, monitorVars, switchVars, clock, log, budget, last>>

\* ---- the calls the two threads make ----
\* _create_threat: a new identifier each time.
NewThreat(src) ==
    [id |-> 1 + Cardinality({k \in 1..Len(completed) :
                                completed[k].call.helper = "add_threat"}),
     source |-> src, type |-> "Brute Force", severity |-> "medium",
     status |-> "detected", timestamp |-> clock, details |-> ""]

\* _report_threat, on the capture thread: add_threat, then update_stats.
CaptureCalls ==
    IF running["capture"].then = "update_stats"
    THEN {HelperCall("update_stats", "_report_threat", NoThreat, NoRule, 0, "",
                     CountedStats(Document))}
    ELSE {HelperCall("add_threat", "_report_threat", NewThreat("10.0.0.1"), NoRule, 0, "",
                     NoStats)}

\* The update_threat calls of _update_threat_status(ip, status).
StatusCalls(caller, ip, status) ==
    {HelperCall("update_threat", caller, NoThreat, NoRule, threats[i].id, status, NoStats) :
        i \in {j \in 1..Len(threats) : threats[j].source = ip /\ threats[j].status # status}}

\* add_rule and remove_rule, on the event loop.
LoopCalls ==
    IF running["loop"].then = "update_stats"
    THEN {HelperCall("update_stats", running["loop"].handler.caller, NoThreat, NoRule, 0, "",
                     CountedStats(Document))}
    ELSE {HelperCall("add_firewall_rule", "add_rule", NoThreat,
                     [source_ip |-> "10.0.0.1", action |-> "block"], 0, "", NoStats),
          HelperCall("remove_firewall_rule", "remove_rule", NoThreat,
                     [source_ip |-> "10.0.0.1", action |-> ""], 0, "", NoStats)}
         \cup StatusCalls("add_rule", "10.0.0.1", "blocked")
         \cup StatusCalls("remove_rule", "10.0.0.1", "detected")

\* POST /firewall/rules with action block, and DELETE /firewall/rules/{ip}.
HandlerCalls ==
    {HelperCall("save_data", "add_firewall_rule", NoThreat,
                [source_ip |-> "10.0.0.1", action |-> "block"], 0, "blocked", NoStats),
     HelperCall("save_data", "delete_firewall_rule", NoThreat,
                [source_ip |-> "10.0.0.1", action |-> ""], 0, "detected", NoStats)}

InitStore == Start(MaxCalls, 0)

StoreNext ==
    \/ \E c \in CaptureCalls : helper_called("capture", c)
    \/ \E c \in LoopCalls : helper_called("loop", c)
    \/ \E t \in Threads : load_data(t)
    \/ \E t \in Threads : save_data(t)
    \/ \E c \in HandlerCalls : handler_load_data(c)
    \/ handler_save_data

SpecStore == InitStore /\ [][StoreNext]_vars

RECURSIVE ReplayFrom(_, _)
\* The document the completed calls leave when each is applied, whole, to the
\* document the one before it left.
ReplayFrom(doc, k) ==
    IF k > Len(completed) THEN doc
    ELSE ReplayFrom(IF Writes(completed[k].call, doc) THEN Changed(completed[k].call, doc)
                    ELSE doc, k + 1)

Quiet == \A t \in Threads : running[t].pc = "idle" /\ running[t].then = ""

\* C17: each store update helper is an atomic read-modify-write: with the capture
\* thread in add_threat or update_stats and the event loop in add_firewall_rule,
\* remove_firewall_rule, update_threat or a handler's save_data, under every
\* interleaving the final document holds the effect of every call: no persisted
\* threat and no persisted rule disappears.
C17_NoLostUpdate ==
    Quiet => /\ threats = ReplayFrom(NoData, 1).threats
             /\ firewall_rules = ReplayFrom(NoData, 1).firewall_rules

\* The call whose write made the step.
LastDone(log_of_calls) == log_of_calls[Len(log_of_calls)]

\* C15: a threat's status moves from detected to blocked, and from blocked back to
\* detected only as part of a successful remove_rule, or of the rule-delete
\* request, for the threat's source address; no add_rule, apply_rules or
\* packet-analysis step changes a blocked threat to detected.
C15_BlockedUntilRuleRemoved ==
    [][\A i \in 1..Len(threats) :
          (/\ threats[i].status = "blocked"
           /\ \E j \in 1..Len(threats') :
                 threats'[j].id = threats[i].id /\ threats'[j].status = "detected")
          => /\ completed' # completed
             /\ LastDone(completed').thread = "loop"
             /\ \/ /\ LastDone(completed').call.caller = "remove_rule"
                   /\ LastDone(completed').call.id = threats[i].id
                \/ /\ LastDone(completed').call.caller = "delete_firewall_rule"
                   /\ LastDone(completed').call.rule.source_ip = threats[i].source]_vars

\* C18: the capture thread never performs or waits on persistence when a threat
\* is confirmed: the store writes of _report_threat (add_threat, update_stats)
\* are executed by the asynchronous context, never by the capture thread.
C18_CaptureThreadNeverPersists ==
    /\ running["capture"].pc = "idle"
    /\ \A k \in 1..Len(completed) :
          completed[k].call.caller = "_report_threat" => completed[k].thread = "loop"

(***************************************************************************)
(* The monitor with and without a broadcast manager: main.py attaches it   *)
(* before the capture starts; a SecurityMonitor used without it keeps      *)
(* websocket_manager = None.  The store's writes succeed.                  *)
(***************************************************************************)
WsPackets == {Repeat(Syn(22), 6), <<Syn(22)>>, Repeat(Echo, 11), <<Echo>>}

WsNext ==
    \/ \E pkts \in WsPackets :
          analyze_packets("10.0.0.1", pkts, {NoAnswer, Answer(1, 500), Answer(0, 900)}, {FALSE})
    \/ \E d \in TickSteps : Tick(d)
    \/ start_live_monitoring
    \/ attach_websocket_manager

SpecWs == Init /\ [][WsNext]_vars

\* C19: when a threat is confirmed while no broadcast manager is attached, the
\* threat is still persisted and its key is still marked reported (until the
\* cleanup drops it, 300 s later), and no broadcast is scheduled.
C19_PersistedWithoutBroadcast ==
    ~websocket_manager =>
        /\ log.broadcasts = 0
        /\ \A k \in Created :
              /\ \E i \in 1..Len(threats) : threats[i].id = log.created[k].id
              /\ clock - log.created[k].time < KeepFor
                    => log.created[k].key \in DOMAIN reported_threats

\* C19, its case: without a manager a threat was confirmed and persisted, and a
\* later packet of the source was analysed and suppressed by the reported key.
C19_AnalysisWentOn ==
    /\ ~websocket_manager
    /\ \E k \in Created, s \in log.skipped :
          /\ s.key = log.created[k].key /\ s.why = "reported"
          /\ s.time > log.created[k].time
          /\ \E i \in 1..Len(threats) : threats[i].id = log.created[k].id

(***************************************************************************)
(* The remote classifier: the properties, under SpecMon.                   *)
(***************************************************************************)
\* C20: with a remote classifier configured, a threat is created only if the
\* classifier call returned prediction 1 with a probability at or above the
\* minimum threshold; when the classifier is unreachable or answers with a
\* non-200 status, no threat is created for the candidate and its key is not
\* added to the reported set.  Stated on every train of packets the handler
\* analyses while the classifier's session is open.
C20_OnlyConfirmedByClassifier ==
    [][session =>
        LET calls == (Len(log.ml_calls) + 1)..Len(log'.ml_calls)
            made == (Len(log.created) + 1)..Len(log'.created)
        IN  /\ \A k \in made :
                  \E i \in calls :
                      /\ log'.ml_calls[i].key = log'.created[k].key
                      /\ log'.ml_calls[i].answer.prediction = 1
                      /\ log'.ml_calls[i].answer.probability >= MinProbability
            /\ \A i \in calls :
                  log'.ml_calls[i].answer = NoAnswer =>
                      /\ \A k \in made : log'.created[k].key # log'.ml_calls[i].key
                      /\ log'.ml_calls[i].key \notin DOMAIN reported_threats']_vars

\* C20, its case: the classifier did not answer for a candidate, and later
\* packets were analysed: a candidate of a later second reached the classifier,
\* was confirmed and became a threat.
C20_AnalysedAfterSilence ==
    /\ session
    /\ \E i, j \in Asked :
          /\ i < j
          /\ log.ml_calls[i].answer = NoAnswer
          /\ log.ml_calls[j].time > log.ml_calls[i].time
          /\ log.ml_calls[j].answer.prediction = 1
          /\ \E k \in Created : log.created[k].key = log.ml_calls[j].key


(***************************************************************************)
(* The four checks on the flows the monitor reaches.                       *)
(***************************************************************************)
\* Packets of every protocol and flag combination the checks tell apart.
Probes == {Syn(22), Ack(443), Udp(53), Echo, EchoReply, OtherIp}

\* The counters the checks read when pkt of src is handled now.
Arriving(src, pkt) ==
    LET known == IF src \in DOMAIN packet_counts THEN packet_counts[src] ELSE NewFlow(clock)
    IN  ResetIfStale(Count(known, pkt, clock), clock)

\* C21: for every packet on which the volumetric-flood condition holds, the
\* candidate the four checks leave is the volumetric-flood candidate: its
\* category, detail and key are those set by the first check, whatever the
\* protocol and flags of the packet are.
C21_FloodShortCircuits ==
    \A pkt \in Probes :
        LET stats == Arriving("10.0.0.1", pkt)
            flood == CheckDDoS(NoCandidate, stats, "10.0.0.1")
        IN  flood.type = "DDoS" => Detect(stats, "10.0.0.1", pkt) = flood


(***************************************************************************)
(* The monitor without classifier, the clock advancing by 1 s and by 4 s.  *)
(***************************************************************************)
DetPackets ==
    {Repeat(OtherIp, 51), <<OtherIp>>, <<Udp(53)>>, Repeat(Echo, 11),
     Repeat(Syn(22), 6), Repeat(Syn(80), 6)}

DetSteps == {1, 4}

NextDet ==
    \/ \E pkts \in DetPackets : analyze_packets("10.0.0.1", pkts, {NoAnswer}, {FALSE})
    \/ \E d \in DetSteps : Tick(d)

SpecDet == Init /\ [][NextDet]_vars

\* C22: the volumetric-flood check raises a candidate for a packet exactly when,
\* over the retained timestamps of the source, the span between the oldest and
\* the newest sample is at least 5 seconds (exactly 5 seconds included) and the
\* number of samples divided by that span exceeds 10 per second.
C22_FloodThreshold ==
    \A pkt \in Probes :
        LET stats == Arriving("10.0.0.1", pkt)
            count == Len(stats.times)
            span == IF count > 0 THEN Span(stats.times) ELSE 0
        IN  (CheckDDoS(NoCandidate, stats, "10.0.0.1").type = "DDoS")
            <=> (span >= 5 /\ count > 10 * span)


(***************************************************************************)
(* A source that touches three ports when the monitor starts and one more  *)
(* port, with many packets, at any time afterwards.                        *)
(***************************************************************************)
FirstPorts == <<Udp(22), Udp(80), Udp(443)>>

\* Eight of the later trains fill the window of 500 timestamps.
LaterPackets == {Repeat(Udp(53), (WindowCap + 7) \div 8)}

MaxTrains == 9       \* packet trains analysed under SpecScan

InitScan == Start(MaxTrains, MaxTicks)

NextScan ==
    \/ /\ clock = StartTime
       /\ analyze_packets("10.0.0.1", FirstPorts, {NoAnswer}, {FALSE})
    \/ \E pkts \in LaterPackets : analyze_packets("10.0.0.1", pkts, {NoAnswer}, {FALSE})
    \/ \E d \in DetSteps : Tick(d)

SpecScan == InitScan /\ [][NextScan]_vars

\* C23: a port-scan threat is created for a packet only if the source touched
\* more than 3 distinct destination ports within less than 3 seconds up to that
\* packet.  Under SpecScan the source touches ports 22, 80 and 443 only at the
\* start and port 53 only afterwards, so more than 3 distinct ports lie within
\* less than 3 seconds only for packets less than 3 seconds after the start.
C23_PortScanWithinSpan ==
    \A i \in Created :
        log.created[i].type = "Port Scan" => log.created[i].time - StartTime < 3


\* Destination ports that got more than 5 SYN packets of the source.  Under
\* SpecDet SYN packets come in trains of six to one port within one second.
FloodedPorts(src) ==
    {p \in {22, 80} : src \in DOMAIN packet_counts
                      /\ Get(packet_counts[src].syn_counts, p) > BruteSyns}

\* C24: when one source floods two destination ports with SYN packets, each of
\* them more than 5 within less than 5 seconds, each port has its own threat of
\* category connection-flood, created under the key of that port.
C24_EachFloodedPortReported ==
    Cardinality(FloodedPorts("10.0.0.1")) = 2 =>
        \A p \in FloodedPorts("10.0.0.1") :
            \E i \in Created :
                /\ log.created[i].key = PortKey("10.0.0.1", "BruteForce", p)
                /\ log.created[i].type = "Brute Force"


(***************************************************************************)
(* The monitor without classifier, fed floods that outlast the reset of a  *)
(* flow's counters, the clock advancing by 1 s, 6 s and 300 s.             *)
(***************************************************************************)
QuietPackets == {Repeat(Syn(22), 7), <<Syn(22)>>, Repeat(Echo, 12), <<Echo>>}

NextQuiet ==
    \/ \E pkts \in QuietPackets : analyze_packets("10.0.0.1", pkts, {NoAnswer}, {FALSE})
    \/ \E d \in TickSteps : Tick(d)

SpecQuiet == Init /\ [][NextQuiet]_vars

\* C25: a key reported at time t is not in the reported set when a packet is
\* analysed at t + 300 s or later: every candidate suppressed because its key was
\* in the reported set comes less than 300 s after a threat created under that
\* key, whatever the arrival times of the packets are.
C25_ForgottenAfterQuietPeriod ==
    \A s \in log.skipped :
        s.why = "reported" =>
            \E i \in Created :
                /\ log.created[i].key = s.key
                /\ s.time - log.created[i].time \in 0..(KeepFor - 1)


(***************************************************************************)
(* Threat status after add_rule, and apply_rules under failures: SpecFw.   *)
(***************************************************************************)
\* add_rule(address, block) has just returned success after its insertion
\* command succeeded and the rule was persisted.
BlockedAndPersisted ==
    /\ last.op = "add_rule" /\ last.ok /\ last.action = "block"
    /\ \E i \in 1..Len(last.cmds) : last.cmds[i].op = "A" /\ last.cmds[i].ok

StatusWritesFailed == {p \in last.faults : p[1] = "store_update"}

C27_ApplyRulesBestEffort ==
    last.op = "apply_rules" =>
        /\ last.ok
        /\ Len(last.cmds) = Len(firewall_rules) + 1
        /\ last.cmds[1].op = "F"
        /\ \A i \in 1..Len(firewall_rules) :
              /\ last.cmds[i + 1].op = "A"
              /\ last.cmds[i + 1].source = firewall_rules[i].source_ip
              /\ last.cmds[i + 1].target = Target(firewall_rules[i].action)

\* C27, witness: apply_rules has run over two persisted rules, the filter
\* rejected the flush or the first insertion, and the insertion of the second
\* rule was issued all the same.
C27_WentOnAfterRejection ==
    /\ last.op = "apply_rules" /\ last.ok
    /\ Len(firewall_rules) = 2
    /\ ~last.cmds[1].ok \/ ~last.cmds[2].ok
    /\ last.cmds[3].op = "A" /\ last.cmds[3].source = firewall_rules[2].source_ip


(***************************************************************************)
(* The monitor with the lockdown flag set and cleared while packets come.  *)
(***************************************************************************)
NextLock ==
    \/ WsNext
    \/ \E is_locked \in BOOLEAN : set_lockdown_state(is_locked)

SpecLock == Init /\ [][NextLock]_vars

\* C28: while the lockdown flag is set, packets handed to _analyze_packet change
\* nothing: the flows, the reported set, the detection attempts and the persisted
\* threats stay as they are, the classifier is not called and nothing is
\* broadcast.
C28_LockdownFreezesAnalysis ==
    [][(is_locked_down /\ budget'.bursts < budget.bursts)
       => UNCHANGED <<packet_counts, reported_threats, detection_attempts, threats, log>>]_vars

\* C28, witness: with classifier and broadcast manager in place, a train of
\* packets was handled under lockdown: packets were handed over, and the monitor
\* has seen none of them.
C28_PacketsDroppedInLockdown ==
    /\ is_locked_down /\ session /\ websocket_manager
    /\ budget.bursts < MaxBursts
    /\ DOMAIN packet_counts = {}
    /\ log = NoLog


(***************************************************************************)
(* Keys and categories of the threats created under SpecMon.               *)
(***************************************************************************)
\* The keys that name the category of a threat of the given type.
KeysOfType(src, type) ==
    IF type = "DDoS" THEN {Key(src, "DDoS")}
    ELSE IF type = "Port Scan" THEN {Key(src, "PortScan")}
    ELSE IF type = "ICMP Flood" THEN {Key(src, "ICMPFlood")}
    ELSE IF type = "Brute Force" THEN {PortKey(src, "BruteForce", p) : p \in {22, 80, 443, 53}}
    ELSE {}

\* C29: whenever a threat is created, the category named in the key under which
\* it is marked reported is the category of the threat, whatever the protocol
\* and flags of the packet that triggered it.
C29_KeyNamesCategory ==
    \A i \in Created :
        log.created[i].key \in KeysOfType("10.0.0.1", log.created[i].type)


(***************************************************************************)
(* What a successful add_rule leaves, under SpecFw.                        *)
(***************************************************************************)
\* C30: after every add_rule(address, verdict) that returns success (the filter
\* holding no rule of another address), the persisted rules hold a rule of that
\* address with the normalized verdict and the filter holds the matching rule,
\* also when the filter already held that rule and the persisted set did not.
C30_SuccessMeansPersistedAndInstalled ==
    (/\ last.op = "add_rule" /\ last.ok
     /\ \A i \in 1..Len(iptables) : iptables[i].source = last.ip)
    => /\ <<last.ip, last.action>> \in PersistedSet(firewall_rules)
       /\ <<last.ip, last.action>> \in FilterSet(iptables)


(***************************************************************************)
(* The existence check of add_rule and remove_rule, under SpecFw.          *)
(***************************************************************************)
Removals(cmds) == SelectSeq(cmds, LAMBDA e : e.op = "D")

\* C31: the existence check is exact on the address.  When the filter holds no
\* rule of address A itself, whatever rules of other addresses it holds, a
\* successful add_rule(A, v) has issued the insertion of A's rule and no removal,
\* and a remove_rule(A) without persisted rule of A issues no removal.
C31_ExistenceCheckExact ==
    /\ (last.op = "add_rule" /\ last.ok /\ last.pre.filter = {})
       => /\ Len(Insertions(last.cmds)) = 1
          /\ Removals(last.cmds) = <<>>
    /\ (last.op = "add_rule" /\ last.pre.filter = {})
       => Removals(last.cmds) = <<>>
    /\ (last.op = "remove_rule" /\ last.pre.filter = {} /\ last.pre.persisted = {})
       => Removals(last.cmds) = <<>>


(***************************************************************************)
(* WebSocketManager (main.py).  Its coroutines run on the event loop: each *)
(* runs alone from one await to the next and is suspended at the await,    *)
(* where any other coroutine may run.  Only the keys of `clients` are kept:*)
(* the ids registered.  Client ids are interchangeable, so a new           *)
(* connection takes the least id not in use and a connection that is       *)
(* replaced or closed is the one with the greatest id.                     *)
(***************************************************************************)
max_clients == 10    \* self.max_clients = 10
MaxWsCalls == 11     \* connect, disconnect and broadcast calls started
MaxSendFailures == 1 \* sends that fail in one broadcast

ClientIds == 1..(max_clients + 1)

Least(S) == CHOOSE x \in S : \A y \in S : x <= y
Greatest(S) == CHOOSE x \in S : \A y \in S : x >= y

Coroutine(op, client_id, pc, todo, disconnected) ==
    [op |-> op, client_id |-> client_id, pc |-> pc, todo |-> todo,
     disconnected |-> disconnected]

\* connect from the capacity test to its next await: the close of the rejected
\* socket, or the accept of the new one.
ConnectCheck(cs, client_id) ==
    IF Cardinality(cs) >= max_clients
    THEN Coroutine("connect", client_id, "reject", {}, {})
    ELSE Coroutine("connect", client_id, "accept", {}, {})

\* connect from its first line to its first await.
ConnectStart(cs, client_id) ==
    IF client_id \in cs
    THEN Coroutine("connect", client_id, "close_old", {}, {})
    ELSE ConnectCheck(cs, client_id)

\* connect resumed after an await, up to its next await or its return.
ConnectResume(cs, c) ==
    IF c.pc = "close_old"
    THEN \* del self.clients[client_id]: a KeyError when it is gone meanwhile
         IF c.client_id \in cs
         THEN [clients |-> cs \ {c.client_id},
               coroutine |-> ConnectCheck(cs \ {c.client_id}, c.client_id)]
         ELSE [clients |-> cs, coroutine |-> Finished]
    ELSE IF c.pc = "accept"
         THEN [clients |-> cs \cup {c.client_id}, coroutine |-> Finished]
         ELSE [clients |-> cs, coroutine |-> Finished]

\* WebSocketManager.disconnect: it has no await of its own
Disconnect(cs, client_id) == cs \ {client_id}

\* broadcast from its first line to its first await: the copy of the clients
BroadcastStart(cs) ==
    IF cs = {} THEN Finished ELSE Coroutine("broadcast", 0, "send", cs, {})

\* broadcast resumed after a send_json that succeeded or raised, up to the next
\* send or, after the last one, through the loop over `disconnected`.
BroadcastResume(cs, c, raised) ==
    LET client_id == Least(c.todo)
        todo == c.todo \ {client_id}
        disconnected == IF raised THEN c.disconnected \cup {client_id} ELSE c.disconnected
    IN  IF todo = {}
        THEN [clients |-> cs \ disconnected, coroutine |-> Finished]
        ELSE [clients |-> cs,
              coroutine |-> Coroutine("broadcast", 0, "send", todo, disconnected)]

FreeSlots == {i \in 1..MaxCoroutines : coroutines[i] = Finished}
Connecting == {coroutines[i].client_id : i \in {j \in 1..MaxCoroutines : coroutines[j].op = "connect"}}
NewClients == IF ClientIds \ (clients \cup Connecting) = {} THEN {}
              ELSE {Least(ClientIds \ (clients \cup Connecting))}
OldClients == IF clients = {} THEN {} ELSE {Greatest(clients)}

wsFrame == <<callVars, storeVars, iptables, monitorVars, switchVars, clock, log, last>>

\* A coroutine is started in a free slot and runs to its first await.
Started(c) ==
    /\ budget.bursts > 0
    /\ FreeSlots # {}
    /\ coroutines' = [coroutines EXCEPT ![Least(FreeSlots)] = c]
    /\ budget' = [budget EXCEPT !.bursts = @ - 1]
    /\ UNCHANGED <<wsFrame, clients>>

connect(client_id) == Started(ConnectStart(clients, client_id))

broadcast == Started(BroadcastStart(clients))

disconnect(client_id) ==
    /\ budget.bursts > 0
    /\ clients' = Disconnect(clients, client_id)
    /\ budget' = [budget EXCEPT !.bursts = @ - 1]
    /\ UNCHANGED <<wsFrame, coroutines>>

Resumed(i, r) ==
    /\ clients' = r.clients
    /\ coroutines' = [coroutines EXCEPT ![i] = r.coroutine]
    /\ UNCHANGED <<wsFrame, budget>>

connect_resumed(i) ==
    /\ coroutines[i].op = "connect"
    /\ Resumed(i, ConnectResume(clients, coroutines[i]))

broadcast_resumed(i) ==
    /\ coroutines[i].op = "broadcast"
    /\ \E raised \in BOOLEAN :
          /\ raised => Cardinality(coroutines[i].disconnected) < MaxSendFailures
          /\ Resumed(i, BroadcastResume(clients, coroutines[i], raised))

InitClients == Start(MaxWsCalls, 0)

NextClients ==
    \/ \E client_id \in NewClients \cup OldClients : connect(client_id)
    \/ \E client_id \in OldClients \cup Connecting : disconnect(client_id)
    \/ broadcast
    \/ \E i \in 1..MaxCoroutines : connect_resumed(i)
    \/ \E i \in 1..MaxCoroutines : broadcast_resumed(i)

SpecClients == InitClients /\ [][NextClients]_vars

\* C32: under every interleaving of connect, disconnect and broadcast
\* coroutines, the number of registered clients never exceeds max_clients.
C32_AtMostMaxClients == Cardinality(clients) <= max_clients

====
